---- MODULE Spec2Model ----
(***************************************************************************)
(* VectorWise serving process (src/api/main.py): one global Faiss index,   *)
(* loaded by the startup handler, and the three endpoints GET /,           *)
(* POST /search and GET /stats.  The index artifact is the file written by *)
(* the offline build (src/generate_data.py).                               *)
(*                                                                         *)
(* A vector is modelled by its length and its first two components x, y    *)
(* (all further components are 0); components are small integers and at    *)
(* most one of x, y is non-zero, so that L2 normalisation and squared L2   *)
(* distances are exact integers.                                           *)
(***************************************************************************)
EXTENDS Integers, Sequences, FiniteSets

\* ---------------------------------------------------------------- bounds
MaxVectors == 2      \* vectors held by an index artifact: 0..MaxVectors
MaxLevel   == 1      \* highest HNSW level of a non-empty artifact: 0..MaxLevel
NSlots     == 2      \* requests in flight at the same time
MaxNodes   == 6      \* vectors inserted by one build
MaxBuildM  == 2      \* smallest values of M a build is configured with: 1..MaxBuildM

\* ------------------------------------------------------ program constants
DIM             == 128   \* api/main.py: DIM = 128
KCap            == 100   \* api/main.py: k: int = Field(..., gt=0, le=100)
EfSearchServing == 64    \* api/main.py: index.hnsw.efSearch = 64
M               == 32    \* generate_data.py: M = 32
EF_CONSTRUCTION == 200   \* generate_data.py: EF_CONSTRUCTION = 200
OtherDim        == 64    \* dimension of an index built for 64-dimensional vectors (examples.py)
ShortDim        == 3     \* test_api.py: a 3-dimensional query
DefaultEfSearch == 16    \* efSearch of an IndexHNSWFlat nobody configured
PadLabel        == -1    \* label index.search reports for a missing neighbour
PadDistance     == 2147483647  \* stands for float32 max, the distance of a missing neighbour

\* the value of the global before any load: index = None
None == [type |-> "None"]

VARIABLES phase, index, slot, work, graph

vars == <<phase, index, slot, work, graph>>

Slots == 1..NSlots

\* ------------------------------------------------------------- vectors
Sign(a) == IF a > 0 THEN 1 ELSE IF a < 0 THEN -1 ELSE 0

\* faiss.normalize_L2 on a one-row array: a row of norm 0 is left alone.
normalize_L2(q) == [q EXCEPT !.x = Sign(q.x), !.y = Sign(q.y)]

\* np.array(query_vector, dtype='float32').reshape(1, -1)
ToArray(v) == [rows |-> 1, cols |-> v.len, x |-> v.x, y |-> v.y]

\* squared Euclidean distance between a query row and a stored vector
L2sqr(q, v) == (q.x - v.x) * (q.x - v.x) + (q.y - v.y) * (q.y - v.y)

\* ------------------------------------------------------- index artifact
\* vectors = np.random.randn(N_VECTORS, DIM) under a fixed seed, then
\* faiss.normalize_L2(vectors): the i-th vector of the build is fixed and of
\* norm 1
Dataset(i) ==
    IF i % 4 = 1 THEN [x |-> 1, y |-> 0]
    ELSE IF i % 4 = 2 THEN [x |-> 0, y |-> 1]
    ELSE IF i % 4 = 3 THEN [x |-> -1, y |-> 0]
    ELSE [x |-> 0, y |-> -1]

Vectors(n) == [i \in 1..n |-> Dataset(i)]

\* highest level drawn by the build: none for an empty index
Levels(n) == IF n = 0 THEN {-1} ELSE 0..MaxLevel

\* index = faiss.IndexHNSWFlat(DIM, M); efConstruction set; index.add(vectors)
BuildHNSW(d, n, lvl) ==
    [type |-> "IndexHNSWFlat", d |-> d, vecs |-> Vectors(n),
     hnsw |-> [M |-> M, efConstruction |-> EF_CONSTRUCTION,
               efSearch |-> DefaultEfSearch, max_level |-> lvl]]

\* an index without an hnsw attribute (the other branch of hasattr)
BuildFlat(d, n) == [type |-> "IndexFlatL2", d |-> d, vecs |-> Vectors(n)]

\* what 'index.faiss' may hold when the service starts
Artifacts ==
    UNION {{BuildHNSW(d, n, lvl) : d \in {DIM, OtherDim}, lvl \in Levels(n)}
              \cup {BuildFlat(DIM, n)} : n \in 0..MaxVectors}

hasattr_hnsw(idx) == "hnsw" \in DOMAIN idx

ntotal(idx) == Len(idx.vecs)

\* ------------------------------------------------------------ index.search
\* position of stored vector i among all stored vectors, by distance to q
\* (equal distances: lower id first)
Rank(idx, q, i) ==
    1 + Cardinality({j \in 1..ntotal(idx) :
            \/ L2sqr(q, idx.vecs[j]) < L2sqr(q, idx.vecs[i])
            \/ L2sqr(q, idx.vecs[j]) = L2sqr(q, idx.vecs[i]) /\ j < i})

Nearest(idx, q, p) == CHOOSE i \in 1..ntotal(idx) : Rank(idx, q, i) = p

\* distances, indices = index.search(query, k): always k entries per row,
\* ascending by distance, ids counted from 0; missing neighbours are
\* reported as label -1 at distance float32 max.
IndexSearch(idx, q, k) ==
    [indices   |-> [p \in 1..k |-> IF p <= ntotal(idx)
                                      THEN Nearest(idx, q, p) - 1 ELSE PadLabel],
     distances |-> [p \in 1..k |-> IF p <= ntotal(idx)
                                      THEN L2sqr(q, idx.vecs[Nearest(idx, q, p)])
                                      ELSE PadDistance]]

\* ---------------------------------------------------------------- requests
Queries ==
    {[len |-> DIM, x |-> 2, y |-> 0], [len |-> DIM, x |-> 0, y |-> -3],
     [len |-> ShortDim, x |-> 1, y |-> 0]}

KValues == {0, 1, KCap, KCap + 1}

SearchRequests == {[kind |-> "search", query_vector |-> v, k |-> k] : v \in Queries, k \in KValues}

\* gt=0 written as ge=0
ValidKFromZero(k) == k >= 0 /\ k <= KCap

\* SearchRequest: k: int = Field(..., gt=0, le=100)
ValidK(k) == k > 0 /\ k <= KCap

\* request validation done by the framework before the handler is called
WellFormed(rq) == ValidK(rq.k)

\* if index is None
NotLoaded(idx) == idx.type = "None"

\* the length checked against an upper limit only
DimOkAtMost(v) == v.len <= DIM

\* if len(request.query_vector) != DIM  (negated)
DimOk(v) == v.len = DIM

\* ---------------------------------------------------------------- responses
Unprocessable  == [code |-> 422]
Unavailable    == [code |-> 503, detail |-> "Index not loaded"]
BadDimension   == [code |-> 400, detail |-> "Query vector must have dimension"]
InternalError  == [code |-> 500, detail |-> "Search failed"]
NoResponse     == [code |-> 0]

\* the dimension check made before the not-loaded check
SearchRejectDimFirst(idx, v) ==
    IF ~DimOk(v) THEN BadDimension
    ELSE IF NotLoaded(idx) THEN Unavailable
    ELSE NoResponse

\* the two early exits of search, in the order of the code: the HTTPException
\* raised, or NoResponse when the handler goes on to the try block
SearchReject(idx, v) ==
    IF NotLoaded(idx) THEN Unavailable
    ELSE IF ~DimOk(v) THEN BadDimension
    ELSE NoResponse

\* an except clause that hides the failure behind an empty result
SearchOutcomeSwallow(idx, q, k, fault) ==
    IF fault \/ q.cols # idx.d
    THEN [code |-> 200, indices |-> <<>>, distances |-> <<>>]
    ELSE [code |-> 200,
          indices |-> IndexSearch(idx, q, k).indices,
          distances |-> IndexSearch(idx, q, k).distances]

\* the try block of search from index.search on: a raised exception (an
\* injected fault, or the binding's refusal of a query whose width is not the
\* index's d) becomes a 500, a result becomes the SearchResult
SearchOutcome(idx, q, k, fault) ==
    IF fault \/ q.cols # idx.d
    THEN InternalError
    ELSE [code |-> 200,
          indices |-> IndexSearch(idx, q, k).indices,
          distances |-> IndexSearch(idx, q, k).distances]

\* 'index' used as a condition: None is false, an index object is true
Truthy(idx) == idx.type # "None"

\* root guarded like search and get_stats
RootResponseGuarded(idx) ==
    IF NotLoaded(idx) THEN Unavailable
    ELSE [code |-> 200, service |-> "VectorWise", status |-> "healthy",
          vectors_indexed |-> ntotal(idx)]

\* body of root
RootResponse(idx) ==
    [code |-> 200, service |-> "VectorWise", status |-> "healthy",
     vectors_indexed |-> IF Truthy(idx) THEN ntotal(idx) ELSE 0]

\* body of get_stats
StatsResponse(idx) ==
    IF NotLoaded(idx) THEN Unavailable
    ELSE IF hasattr_hnsw(idx)
    THEN [code |-> 200, total_vectors |-> ntotal(idx), dimension |-> DIM,
          index_type |-> idx.type,
          hnsw_m |-> idx.hnsw.max_level, hnsw_efSearch |-> idx.hnsw.efSearch]
    ELSE [code |-> 200, total_vectors |-> ntotal(idx), dimension |-> DIM,
          index_type |-> idx.type]

\* ------------------------------------------------------------ offline build
\* The graph built by index.add: the configured M, the inserted nodes (vector
\* and drawn level, ids in insertion order from 1), per node and layer the
\* neighbour ids, and the entry point (0: none).
EmptyGraph(m) == [M |-> m, nodes |-> <<>>, links |-> <<>>, entryPoint |-> 0]

\* per-layer cap on a neighbour list
Cap(g, l) == IF l = 0 THEN 2 * g.M ELSE g.M

TopLayer(g) == g.nodes[g.entryPoint].level

DistTo(g, q, i) == L2sqr(q, g.nodes[i].vec)

\* a comes before b by distance to q (equal distances: lower id first)
Before(g, q, a, b) ==
    \/ DistTo(g, q, a) < DistTo(g, q, b)
    \/ DistTo(g, q, a) = DistTo(g, q, b) /\ a < b

Closest(g, q, S) == CHOOSE a \in S : \A b \in S \ {a} : Before(g, q, a, b)

Furthest(g, q, S) == CHOOSE a \in S : \A b \in S \ {a} : Before(g, q, b, a)

\* single-path greedy walk at layer l from ep: move to the closest neighbour
\* while one is closer to q than the current node
RECURSIVE GreedyWalk(_, _, _, _)
GreedyWalk(g, q, ep, l) ==
    LET closer == {n \in g.links[ep][l] : DistTo(g, q, n) < DistTo(g, q, ep)}
    IN  IF closer = {} THEN ep ELSE GreedyWalk(g, q, Closest(g, q, closer), l)

\* beam search, one neighbour e of the expanded candidate: mark it visited,
\* keep it if it beats the worst kept result or the list is not full
Visit(g, q, ef, st, e) ==
    IF e \in st.V THEN st
    ELSE IF DistTo(g, q, e) < DistTo(g, q, Furthest(g, q, st.W)) \/ Cardinality(st.W) < ef
    THEN LET W2 == st.W \cup {e}
         IN  [C |-> st.C \cup {e},
              W |-> IF Cardinality(W2) > ef THEN W2 \ {Furthest(g, q, W2)} ELSE W2,
              V |-> st.V \cup {e}]
    ELSE [st EXCEPT !.V = @ \cup {e}]

RECURSIVE VisitAll(_, _, _, _, _)
VisitAll(g, q, ef, st, todo) ==
    IF todo = {} THEN st
    ELSE LET e == CHOOSE x \in todo : \A y \in todo : x <= y
         IN  VisitAll(g, q, ef, Visit(g, q, ef, st, e), todo \ {e})

\* beam search at layer l: expand the closest candidate until none is left
\* or the closest one is worse than the worst kept result
RECURSIVE Beam(_, _, _, _, _)
Beam(g, q, ef, l, st) ==
    IF st.C = {} THEN st.W
    ELSE LET c == Closest(g, q, st.C)
         IN  IF DistTo(g, q, c) > DistTo(g, q, Furthest(g, q, st.W)) THEN st.W
             ELSE Beam(g, q, ef, l,
                       VisitAll(g, q, ef, [st EXCEPT !.C = @ \ {c}], g.links[c][l]))

SearchLayer(g, q, ep, ef, l) == Beam(g, q, ef, l, [C |-> {ep}, W |-> {ep}, V |-> {ep}])

\* the selection heuristic: take candidates closest first, accept one unless
\* it is closer to an accepted neighbour than to q, stop at cap
RECURSIVE SelectFrom(_, _, _, _, _)
SelectFrom(g, q, todo, acc, cap) ==
    IF todo = {} \/ Cardinality(acc) >= cap THEN acc
    ELSE LET e == Closest(g, q, todo)
             ok == \A a \in acc : ~(DistTo(g, g.nodes[a].vec, e) < DistTo(g, q, e))
         IN  SelectFrom(g, q, todo \ {e}, IF ok THEN acc \cup {e} ELSE acc, cap)

SelectNeighbors(g, q, cands, cap) == SelectFrom(g, q, cands, {}, cap)

\* a back-edge added with no pruning
ShrinkNever(g, n, S, l) == S

\* the neighbour list S of node n at layer l pruned back to the cap by the
\* selection heuristic
Shrink(g, n, S, l) == SelectNeighbors(g, g.nodes[n].vec, S, Cap(g, l))

\* the list of node n at layer l after the back-edge to node new is added
AddLink(g, n, new, l) ==
    LET all == g.links[n][l] \cup {new}
    IN  IF Cardinality(all) > Cap(g, l) THEN Shrink(g, n, all, l) ELSE all

\* the node the insertion of q at level lvl enters layer l by: the entry
\* point at the top layer, below it the result of the layer above (a greedy
\* walk above lvl, the closest of the beam search from lvl down)
RECURSIVE EntryAt(_, _, _, _)
EntryAt(g, q, lvl, l) ==
    IF l >= TopLayer(g) THEN g.entryPoint
    ELSE IF l + 1 > lvl THEN GreedyWalk(g, q, EntryAt(g, q, lvl, l + 1), l + 1)
    ELSE Closest(g, q, SearchLayer(g, q, EntryAt(g, q, lvl, l + 1), EF_CONSTRUCTION, l + 1))

\* the neighbours chosen for the new node at layer l
Chosen(g, q, lvl, l) ==
    SelectNeighbors(g, q, SearchLayer(g, q, EntryAt(g, q, lvl, l), EF_CONSTRUCTION, l),
                    Cap(g, l))

\* one vector v inserted at drawn level lvl
Insert(g, v, lvl) ==
    LET id == Len(g.nodes) + 1
        g1 == [g EXCEPT !.nodes = Append(@, [vec |-> v, level |-> lvl]),
                        !.links = Append(@, [l \in 0..lvl |-> {}])]
    IN  IF g.entryPoint = 0 THEN [g1 EXCEPT !.entryPoint = id]
        ELSE LET top == TopLayer(g)
                 from == IF lvl < top THEN lvl ELSE top
             IN  [g1 EXCEPT
                    !.links = [n \in 1..id |-> [l \in 0..g1.nodes[n].level |->
                        IF l > from THEN g1.links[n][l]
                        ELSE IF n = id THEN Chosen(g1, v, lvl, l)
                        ELSE IF n \in Chosen(g1, v, lvl, l) THEN AddLink(g1, n, id, l)
                        ELSE g1.links[n][l]]],
                    !.entryPoint = IF lvl > top THEN id ELSE g.entryPoint]

\* ------------------------------------------------------------------ startup
\* index.hnsw.efSearch = 64, when the index has an hnsw attribute
ConfigureIndex(idx) ==
    IF hasattr_hnsw(idx) THEN [idx EXCEPT !.hnsw.efSearch = EfSearchServing] ELSE idx

Idle == [pc |-> "idle"]

NoArray == [rows |-> 0, cols |-> 0, x |-> 0, y |-> 0]

\* 'query' kept in one module-level buffer used by every call
WorkSlotShared(r) == 1

\* the frame holding the handler's local 'query' array: one per call
WorkSlot(r) == r

Init ==
    /\ phase = "boot"
    /\ index = None
    /\ slot = [r \in Slots |-> Idle]
    /\ work = [r \in Slots |-> NoArray]
    /\ graph = EmptyGraph(M)

\* load_index, first statement: index = faiss.read_index('index.faiss')
ReadIndex ==
    /\ phase = "boot"
    /\ \E a \in Artifacts : index' = a
    /\ phase' = "loading"
    /\ UNCHANGED <<slot, work>>
    /\ UNCHANGED graph

\* load_index: read_index raises (file missing or unreadable); the global is
\* not assigned, the exception is re-raised and startup fails
ReadIndexFails ==
    /\ phase = "boot"
    /\ phase' = "failed"
    /\ UNCHANGED <<index, slot, work>>
    /\ UNCHANGED graph

\* load_index: a statement after the assignment of the global raises inside
\* the try block (the efSearch assignment, or one of the two log lines after
\* it); the except clause logs and re-raises, startup fails, and the global
\* keeps the index as far as it was configured
LoadFailsAfterRead ==
    /\ phase = "loading"
    /\ \E configured \in BOOLEAN :
          index' = IF configured THEN ConfigureIndex(index) ELSE index
    /\ phase' = "failed"
    /\ UNCHANGED <<slot, work>>
    /\ UNCHANGED graph

\* load_index, rest: set efSearch, log, return; the server starts serving
FinishLoad ==
    /\ phase = "loading"
    /\ index' = ConfigureIndex(index)
    /\ phase' = "serving"
    /\ UNCHANGED <<slot, work>>
    /\ UNCHANGED graph

\* the application served without its startup event having run (a server
\* without lifespan support): the global keeps its initial None, the state the
\* 503 branches of search and get_stats exist for
ServeWithoutStartup ==
    /\ phase = "boot"
    /\ phase' = "serving"
    /\ UNCHANGED <<index, slot, work>>
    /\ UNCHANGED graph

\* ---------------------------------------------------------------- endpoints
\* root and get_stats are one step each.  search is two steps, up to the
\* normalised query and from index.search on, and steps of different
\* requests interleave freely: every schedule of the event loop is among
\* the interleavings.
\* a request arrives on connection r while the server is serving
Accepts(r) == phase = "serving" /\ slot[r].pc = "idle"

\* request rq on connection r has been answered with rsp
Reply(r, rq, rsp) ==
    slot' = [slot EXCEPT ![r] = [pc |-> "done", req |-> rq, searched |-> FALSE,
                                 fault |-> FALSE, resp |-> rsp]]

\* GET /
root(r) ==
    /\ Accepts(r)
    /\ Reply(r, [kind |-> "root"], RootResponse(index))
    /\ UNCHANGED <<phase, index, work>>
    /\ UNCHANGED graph

\* GET /stats
get_stats(r) ==
    /\ Accepts(r)
    /\ Reply(r, [kind |-> "stats"], StatsResponse(index))
    /\ UNCHANGED <<phase, index, work>>
    /\ UNCHANGED graph

\* POST /search up to the search itself: validation of the body (422 without
\* the handler being called), the not-loaded check, the dimension check,
\* query = np.array(...).reshape(1, -1), faiss.normalize_L2(query)
search_prepare(r) ==
    /\ Accepts(r)
    /\ \E rq \in SearchRequests :
          IF ~WellFormed(rq)
          THEN Reply(r, rq, Unprocessable) /\ UNCHANGED work
          ELSE IF SearchReject(index, rq.query_vector) # NoResponse
          THEN Reply(r, rq, SearchReject(index, rq.query_vector)) /\ UNCHANGED work
          ELSE /\ work' = [work EXCEPT ![WorkSlot(r)] =
                               normalize_L2(ToArray(rq.query_vector))]
               /\ slot' = [slot EXCEPT ![r] =
                               [pc |-> "normalized", req |-> rq, searched |-> FALSE,
                                fault |-> FALSE, resp |-> NoResponse]]
    /\ UNCHANGED <<phase, index>>
    /\ UNCHANGED graph

\* search_run with efSearch widened to k on the serving index
search_runTuning(r) ==
    /\ slot[r].pc = "normalized"
    /\ \E fault \in BOOLEAN :
          slot' = [slot EXCEPT ![r].pc = "done", ![r].searched = TRUE,
                               ![r].fault = fault,
                               ![r].resp = SearchOutcome(index, work[WorkSlot(r)],
                                                         slot[r].req.k, fault)]
    /\ work' = [work EXCEPT ![WorkSlot(r)] = NoArray]
    /\ index' = IF hasattr_hnsw(index) /\ slot[r].req.k > index.hnsw.efSearch
                THEN [index EXCEPT !.hnsw.efSearch = slot[r].req.k] ELSE index
    /\ UNCHANGED phase
    /\ UNCHANGED graph

\* POST /search: index.search(query, request.k) and the response, or the
\* except clause when something in the try block raised
search_run(r) ==
    /\ slot[r].pc = "normalized"
    /\ \E fault \in BOOLEAN :
          slot' = [slot EXCEPT ![r].pc = "done", ![r].searched = TRUE,
                               ![r].fault = fault,
                               ![r].resp = SearchOutcome(index, work[WorkSlot(r)],
                                                         slot[r].req.k, fault)]
    /\ work' = [work EXCEPT ![WorkSlot(r)] = NoArray]
    /\ UNCHANGED <<phase, index>>
    /\ UNCHANGED graph

\* the response has been sent; the connection can carry the next request
Finish(r) ==
    /\ slot[r].pc = "done"
    /\ slot' = [slot EXCEPT ![r] = Idle]
    /\ UNCHANGED <<phase, index, work>>
    /\ UNCHANGED graph

Next ==
    \/ ReadIndex
    \/ ReadIndexFails
    \/ LoadFailsAfterRead
    \/ FinishLoad
    \/ ServeWithoutStartup
    \/ \E r \in Slots : root(r)
    \/ \E r \in Slots : get_stats(r)
    \/ \E r \in Slots : search_prepare(r)
    \/ \E r \in Slots : search_run(r)
    \/ \E r \in Slots : Finish(r)

Spec == Init /\ [][Next]_vars

\* the build script: an empty IndexHNSWFlat with the configured M (the
\* script's 32, or a small M under which the caps are reached)
BuildInit ==
    /\ phase = "boot"
    /\ index = None
    /\ slot = [r \in Slots |-> Idle]
    /\ work = [r \in Slots |-> NoArray]
    /\ \E m \in (1..MaxBuildM) \cup {M} : graph = EmptyGraph(m)

\* index.add(vectors), one vector: the next vector of the data set is
\* inserted at a drawn level
add ==
    /\ Len(graph.nodes) < MaxNodes
    /\ \E lvl \in 0..MaxLevel :
          graph' = Insert(graph, Dataset(Len(graph.nodes) + 1), lvl)
    /\ UNCHANGED <<phase, index, slot, work>>

BuildNext == add

BuildSpec == BuildInit /\ [][BuildNext]_vars

\* ------------------------------------------------------------------- claims
Done(r) == slot[r].pc = "done"

Busy(r) == slot[r].pc # "idle"

IsSearch(r) == Busy(r) /\ slot[r].req.kind = "search"

Loaded == index # None

KInRange(r) == slot[r].req.k >= 1 /\ slot[r].req.k <= KCap

RightLength(r) == slot[r].req.query_vector.len = DIM

Ascending(ds) == \A p \in 1..(Len(ds) - 1) : ds[p] <= ds[p + 1]

Min(a, b) == IF a < b THEN a ELSE b

\* C1 as stated: with an index loaded, every search request whose
\* query_vector is not of length 128 is answered 400 and index.search is not
\* invoked for it.
C1_WrongLengthIs400 ==
    \A r \in Slots :
        IsSearch(r) /\ Loaded /\ ~RightLength(r)
            => /\ ~slot[r].searched
               /\ Done(r)
               /\ slot[r].resp.code = 400

\* C1 amended: with an index loaded, a search request whose query_vector is
\* not of length 128 is answered with a client error, 400 when k is within
\* 1..100 and 422 (request validation) when it is not, and index.search is
\* not invoked for it.
C1_WrongLengthIsClientError ==
    \A r \in Slots :
        IsSearch(r) /\ Loaded /\ ~RightLength(r)
            => /\ ~slot[r].searched
               /\ Done(r)
               /\ slot[r].resp.code = IF KInRange(r) THEN 400 ELSE 422

C1_Witness ==
    \E r \in Slots :
        /\ IsSearch(r) /\ Done(r) /\ Loaded
        /\ slot[r].req.query_vector.len = ShortDim
        /\ KInRange(r)
        /\ slot[r].resp.code = 400

\* C2: a search request with k <= 0 or k > 100 is rejected with a client
\* error (422) before the handler runs: no search is executed and the
\* response carries no result; a request with 1 <= k <= 100 is not rejected
\* for its k.
C2_KOutOfRangeRejected ==
    \A r \in Slots :
        IsSearch(r) =>
            /\ ~KInRange(r) =>
                  /\ Done(r)
                  /\ slot[r].resp.code = 422
                  /\ ~slot[r].searched
                  /\ "indices" \notin DOMAIN slot[r].resp
            /\ KInRange(r) /\ Done(r) => slot[r].resp.code # 422

C2_Witness ==
    /\ \E r \in Slots : IsSearch(r) /\ Done(r) /\ slot[r].req.k = 0
                         /\ slot[r].resp.code = 422
    /\ \E r \in Slots : IsSearch(r) /\ Done(r) /\ slot[r].req.k = KCap
                         /\ slot[r].resp.code = 200

\* C3: with no index loaded, every well-formed search request, whatever
\* the length of its query vector, and every stats request is answered 503,
\* and no search is executed.
C3_NotLoadedIs503 ==
    \A r \in Slots :
        /\ Busy(r) /\ ~Loaded
        /\ \/ slot[r].req.kind = "stats"
           \/ slot[r].req.kind = "search" /\ KInRange(r)
        => /\ ~slot[r].searched
           /\ Done(r)
           /\ slot[r].resp.code = 503

C3_Witness ==
    /\ ~Loaded
    /\ \E r \in Slots : IsSearch(r) /\ Done(r) /\ ~RightLength(r)
                         /\ slot[r].resp.code = 503
    /\ \E r \in Slots : Done(r) /\ slot[r].req.kind = "stats"
                         /\ slot[r].resp.code = 503

\* C4: a successful search returns exactly min(k, count()) results, indices
\* and distances of equal length, distances ascending.
C4_ResultSize ==
    \A r \in Slots :
        IsSearch(r) /\ Done(r) /\ slot[r].resp.code = 200
            => /\ Len(slot[r].resp.indices) = Min(slot[r].req.k, ntotal(index))
               /\ Len(slot[r].resp.distances) = Len(slot[r].resp.indices)
               /\ Ascending(slot[r].resp.distances)

\* C5: a search is executed only while serving an index whose load ran to
\* completion (read in full, efSearch of an HNSW index set to 64); after a
\* load that failed at any step the service is in the index-unavailable
\* state (no index is set) and no request is in progress.
C5_SearchOnlyOnCompleteLoad ==
    /\ \A r \in Slots :
          Busy(r) /\ (slot[r].searched \/ slot[r].pc = "normalized")
              => /\ phase = "serving"
                 /\ Loaded
                 /\ "hnsw" \in DOMAIN index => index.hnsw.efSearch = EfSearchServing
    /\ phase \in {"boot", "loading", "failed"} => \A r \in Slots : ~Busy(r)
    /\ phase = "failed" => ~Loaded

\* C6: an artifact whose dimension is not 128 never becomes the served
\* index: whenever the service is serving a loaded index, its dimension is
\* 128.
C6_OtherDimensionNotServed ==
    phase = "serving" /\ Loaded => index.d = DIM

\* C7: once the service is serving, no step (a request arriving, any
\* handler step, a response) changes the index: its reference, its vectors
\* and its efSearch stay as the load left them.
C7_RequestsLeaveIndexAlone ==
    [][phase = "serving" => index' = index /\ phase' = "serving"]_vars

C7_Witness ==
    /\ Loaded /\ "hnsw" \in DOMAIN index
    /\ \E r \in Slots : IsSearch(r) /\ Done(r) /\ slot[r].searched
                         /\ slot[r].req.k = KCap /\ slot[r].resp.code = 200
    /\ \E r \in Slots : Done(r) /\ slot[r].req.kind = "stats"

\* the response of request rq handled on its own against index idx, no
\* failure injected
Sequential(idx, rq) ==
    IF rq.kind = "root" THEN RootResponse(idx)
    ELSE IF rq.kind = "stats" THEN StatsResponse(idx)
    ELSE IF rq.k < 1 \/ rq.k > KCap THEN Unprocessable
    ELSE IF idx = None THEN Unavailable
    ELSE IF rq.query_vector.len # DIM THEN BadDimension
    ELSE SearchOutcome(idx, normalize_L2(ToArray(rq.query_vector)), rq.k, FALSE)

\* C8: under every interleaving of the handlers' steps, a search request
\* on which no failure was injected gets the response it gets when handled
\* alone.
C8_ConcurrentAsSequential ==
    \A r \in Slots :
        IsSearch(r) /\ Done(r) /\ ~slot[r].fault
            => slot[r].resp = Sequential(index, slot[r].req)

C8_Witness ==
    \E r1, r2 \in Slots :
        /\ r1 # r2
        /\ IsSearch(r1) /\ Done(r1) /\ slot[r1].resp.code = 200
        /\ ntotal(index) > 1
        /\ IsSearch(r2) /\ slot[r2].pc = "normalized"
        /\ slot[r2].req.query_vector # slot[r1].req.query_vector

\* C9: the stats of a loaded HNSW index report its vector count, the
\* dimension 128, its efSearch, and as hnsw_m the M it was built with.
C9_StatsReportM ==
    \A r \in Slots :
        /\ Done(r) /\ slot[r].req.kind = "stats" /\ slot[r].resp.code = 200
        /\ "hnsw" \in DOMAIN index
        => /\ slot[r].resp.total_vectors = ntotal(index)
           /\ slot[r].resp.dimension = DIM
           /\ slot[r].resp.hnsw_efSearch = index.hnsw.efSearch
           /\ slot[r].resp.hnsw_m = index.hnsw.M

\* request r's search raised inside the try block
Failed(r) == slot[r].searched /\ (slot[r].fault \/ index.d # DIM)

\* C10: a search that fails inside the try block had passed the not-loaded
\* and dimension checks and is answered 500; the failing step leaves the
\* index as it was; every request that did not fail itself is answered as
\* if handled alone, whatever failed before or beside it.
C10_FailureIsLocal ==
    /\ [](\A r \in Slots :
            Done(r) =>
                IF Failed(r)
                THEN /\ slot[r].resp.code = 500
                     /\ Loaded /\ RightLength(r) /\ KInRange(r)
                ELSE slot[r].resp = Sequential(index, slot[r].req))
    /\ [][\A r \in Slots :
            slot[r].pc = "normalized" /\ slot'[r].pc = "done"
                => index' = index /\ phase' = phase]_vars

C10_Witness ==
    \E r1, r2 \in Slots :
        /\ r1 # r2
        /\ Done(r1) /\ slot[r1].fault /\ slot[r1].resp.code = 500
        /\ IsSearch(r2) /\ Done(r2) /\ slot[r2].resp.code = 200

IsRoot(r) == Done(r) /\ slot[r].req.kind = "root"

\* C11 as stated: GET / is always answered 200 with status "healthy";
\* vectors_indexed is the loaded index's vector count, and it is 0 exactly
\* when no index is loaded.
C11_ZeroOnlyWhenNotLoaded ==
    \A r \in Slots :
        IsRoot(r) =>
            /\ slot[r].resp.code = 200
            /\ slot[r].resp.status = "healthy"
            /\ Loaded => slot[r].resp.vectors_indexed = Len(index.vecs)
            /\ slot[r].resp.vectors_indexed = 0 <=> ~Loaded

\* C11 amended: GET / is always answered 200 with status "healthy", never
\* 503; vectors_indexed is the loaded index's vector count, and it is 0 when
\* no index is loaded or the loaded index holds no vectors.
C11_HealthAlways200 ==
    \A r \in Slots :
        IsRoot(r) =>
            /\ slot[r].resp.code = 200
            /\ slot[r].resp.status = "healthy"
            /\ Loaded => slot[r].resp.vectors_indexed = Len(index.vecs)
            /\ slot[r].resp.vectors_indexed = 0 <=> (~Loaded \/ Len(index.vecs) = 0)

C11_Witness ==
    /\ ~Loaded
    /\ \E r \in Slots : IsRoot(r) /\ slot[r].resp.code = 200
                         /\ slot[r].resp.vectors_indexed = 0
    /\ \E r \in Slots : Done(r) /\ slot[r].req.kind = "stats"
                         /\ slot[r].resp.code = 503

\* C12: after any sequence of insertions no neighbour list is longer than
\* its cap, M above layer 0 and 2M at layer 0; this includes the lists of
\* nodes that received a back-edge and were pruned.
C12_NeighborCap ==
    \A n \in 1..Len(graph.nodes) :
        \A l \in 0..graph.nodes[n].level :
            Cardinality(graph.links[n][l]) <= (IF l = 0 THEN 2 * graph.M ELSE graph.M)

\* node n's list at layer l is full and was pruned: a neighbour still points
\* to n and is no longer pointed back to
PrunedAt(n, l) ==
    /\ l <= graph.nodes[n].level
    /\ Cardinality(graph.links[n][l]) = (IF l = 0 THEN 2 * graph.M ELSE graph.M)
    /\ \E o \in 1..Len(graph.nodes) :
          /\ o # n
          /\ l <= graph.nodes[o].level
          /\ n \in graph.links[o][l]
          /\ o \notin graph.links[n][l]

\* pruning has happened at layer 0 and at a layer above
C12_Witness ==
    /\ \E n \in 1..Len(graph.nodes) : PrunedAt(n, 0)
    /\ \E n \in 1..Len(graph.nodes) : \E l \in 1..MaxLevel : PrunedAt(n, l)

====
